---- MODULE Spec2Model ----
(***************************************************************************)
(* A model of the agrivaani backend's market-price path: the state-name    *)
(* normalizer, the upstream price fetcher and the process-wide cache of    *)
(* src/govt_market.py, and the user-listing store of                       *)
(* src/models/marketplace.py.                                              *)
(*                                                                         *)
(* Python strings are sequences of one-character strings, so that lower(), *)
(* strip(), title(), replace() and float() are computed character by       *)
(* character.  None is the one-element sequence <<"None">>, which is no    *)
(* string (its element is not a character).                                *)
(***************************************************************************)
EXTENDS Integers, Sequences, FiniteSets, TLC

----------------------------------------------------------------------------
(* Python values and str methods *)

None == <<"None">>

\* Python truthiness of an optional string: None and "" are falsy.
Truthy(x) == x # None /\ x # <<>>

UpperLetters == <<"A", "B", "C", "D", "E", "F", "G", "H", "I", "J", "K", "L", "M",
                  "N", "O", "P", "Q", "R", "S", "T", "U", "V", "W", "X", "Y", "Z">>

LowerLetters == <<"a", "b", "c", "d", "e", "f", "g", "h", "i", "j", "k", "l", "m",
                  "n", "o", "p", "q", "r", "s", "t", "u", "v", "w", "x", "y", "z">>

DigitChars == <<"0", "1", "2", "3", "4", "5", "6", "7", "8", "9">>

Whitespace == {" ", "\t", "\n"}

IndexOf(c, seq) == CHOOSE i \in 1..Len(seq) : seq[i] = c

IsUpper(c) == \E i \in 1..Len(UpperLetters) : UpperLetters[i] = c

IsLower(c) == \E i \in 1..Len(LowerLetters) : LowerLetters[i] = c

IsDigit(c) == \E i \in 1..Len(DigitChars) : DigitChars[i] = c

LowerChar(c) == IF IsUpper(c) THEN LowerLetters[IndexOf(c, UpperLetters)] ELSE c

UpperChar(c) == IF IsLower(c) THEN UpperLetters[IndexOf(c, LowerLetters)] ELSE c

\* str.lower()
Lower(s) == [i \in 1..Len(s) |-> LowerChar(s[i])]

\* str.upper()
Upper(s) == [i \in 1..Len(s) |-> UpperChar(s[i])]

\* str.title(): a cased character is upper-cased after an uncased one (or at
\* the start) and lower-cased after a cased one.
Title(s) ==
    [i \in 1..Len(s) |->
        IF i = 1 \/ ~(IsUpper(s[i - 1]) \/ IsLower(s[i - 1]))
        THEN UpperChar(s[i])
        ELSE LowerChar(s[i])]

RECURSIVE LStrip(_)
LStrip(s) == IF s # <<>> /\ Head(s) \in Whitespace THEN LStrip(Tail(s)) ELSE s

RECURSIVE RStrip(_)
RStrip(s) ==
    IF s # <<>> /\ s[Len(s)] \in Whitespace
    THEN RStrip(SubSeq(s, 1, Len(s) - 1))
    ELSE s

\* str.strip()
Strip(s) == RStrip(LStrip(s))

\* str.replace(c, '')
Remove(s, c) == SelectSeq(s, LAMBDA x : x # c)

----------------------------------------------------------------------------
(* normalize_state_name *)

StrAndhraPradesh == <<"A", "n", "d", "h", "r", "a", " ", "P", "r", "a", "d", "e", "s", "h">>

StrArunachalPradesh == <<"A", "r", "u", "n", "a", "c", "h", "a", "l", " ", "P", "r", "a", "d", "e", "s", "h">>

StrKarnataka == <<"K", "a", "r", "n", "a", "t", "a", "k", "a">>

StrKerala == <<"K", "e", "r", "a", "l", "a">>

StrMadhyaPradesh == <<"M", "a", "d", "h", "y", "a", " ", "P", "r", "a", "d", "e", "s", "h">>

StrMaharashtra == <<"M", "a", "h", "a", "r", "a", "s", "h", "t", "r", "a">>

StrNCTofDelhi == <<"N", "C", "T", " ", "o", "f", " ", "D", "e", "l", "h", "i">>

StrPotato == <<"P", "o", "t", "a", "t", "o">>

StrPunjab == <<"P", "u", "n", "j", "a", "b">>

StrRice == <<"R", "i", "c", "e">>

StrTamilNadu == <<"T", "a", "m", "i", "l", " ", "N", "a", "d", "u">>

StrTomato == <<"T", "o", "m", "a", "t", "o">>

StrUnknownCrop == <<"U", "n", "k", "n", "o", "w", "n", " ", "C", "r", "o", "p">>

StrUttarPradesh == <<"U", "t", "t", "a", "r", " ", "P", "r", "a", "d", "e", "s", "h">>

StrUttarakhand == <<"U", "t", "t", "a", "r", "a", "k", "h", "a", "n", "d">>

StrWestBengal == <<"W", "e", "s", "t", " ", "B", "e", "n", "g", "a", "l">>

StrWheat == <<"W", "h", "e", "a", "t">>


\* The state_mapping dict, as its (key, value) items in source order.
state_mapping ==
    << <<<<"k", "a", "r", "n", "a", "t", "k", "a">>,
         StrKarnataka>>,
       <<<<"m", "u", "m", "b", "a", "i">>,
         StrMaharashtra>>,
       <<<<"b", "o", "m", "b", "a", "y">>,
         StrMaharashtra>>,
       <<<<"d", "e", "l", "h", "i">>,
         StrNCTofDelhi>>,
       <<<<"t", "a", "m", "i", "l", "n", "a", "d", "u">>,
         StrTamilNadu>>,
       <<<<"w", "e", "s", "t", "b", "e", "n", "g", "a", "l">>,
         StrWestBengal>>,
       <<<<"a", "n", "d", "h", "r", "a", "p", "r", "a", "d", "e", "s", "h">>,
         StrAndhraPradesh>>,
       <<<<"a", "r", "u", "n", "a", "c", "h", "a", "l", "p", "r", "a", "d", "e", "s", "h">>,
         StrArunachalPradesh>>,
       <<<<"m", "a", "d", "h", "y", "a", "p", "r", "a", "d", "e", "s", "h">>,
         StrMadhyaPradesh>>,
       <<<<"u", "t", "t", "a", "r", "p", "r", "a", "d", "e", "s", "h">>,
         StrUttarPradesh>>,
       <<<<"u", "t", "t", "a", "r", "a", "k", "h", "a", "n", "d">>,
         StrUttarakhand>>,
       <<<<"t", "a", "m", "i", "l", " ", "n", "a", "d", "u">>,
         StrTamilNadu>>,
       <<<<"w", "e", "s", "t", " ", "b", "e", "n", "g", "a", "l">>,
         StrWestBengal>>,
       <<<<"a", "n", "d", "h", "r", "a", " ", "p", "r", "a", "d", "e", "s", "h">>,
         StrAndhraPradesh>>,
       <<<<"a", "r", "u", "n", "a", "c", "h", "a", "l", " ", "p", "r", "a", "d", "e", "s", "h">>,
         StrArunachalPradesh>>,
       <<<<"m", "a", "d", "h", "y", "a", " ", "p", "r", "a", "d", "e", "s", "h">>,
         StrMadhyaPradesh>>,
       <<<<"u", "t", "t", "a", "r", " ", "p", "r", "a", "d", "e", "s", "h">>,
         StrUttarPradesh>> >>

\* normalize_state_name with the lookup key not stripped.
normalize_state_name_nostrip(state) ==
    LET key == Lower(state)
    IN  IF \E i \in 1..Len(state_mapping) : state_mapping[i][1] = key
        THEN state_mapping[CHOOSE i \in 1..Len(state_mapping) :
                               state_mapping[i][1] = key][2]
        ELSE state

\* state_mapping.get(state.lower().strip(), state)
normalize_state_name(state) ==
    LET key == Strip(Lower(state))
    IN  IF \E i \in 1..Len(state_mapping) : state_mapping[i][1] = key
        THEN state_mapping[CHOOSE i \in 1..Len(state_mapping) :
                               state_mapping[i][1] = key][2]
        ELSE state

----------------------------------------------------------------------------
(* JSON values of an upstream response *)

\* A value of a JSON object: a string, a number, null, or the key is absent.
JStr(s) == [t |-> "str", s |-> s, n |-> 0]

JNum(n) == [t |-> "num", s |-> <<>>, n |-> n]

JNull == [t |-> "null", s |-> <<>>, n |-> 0]

JAbsent == [t |-> "absent", s |-> <<>>, n |-> 0]

\* dict.get(key, default): the default only when the key is absent.
DictGet(v, default) == IF v.t = "absent" THEN default ELSE v

----------------------------------------------------------------------------
(* int(float(...)) *)

\* The outcome of an expression: a value, or the exception it raises.
Value(v) == [exc |-> "none", v |-> v]

Raise(e) == [exc |-> e, v |-> 0]

RECURSIVE DecVal(_)
\* The number a sequence of decimal digits denotes.
DecVal(ds) ==
    IF ds = <<>> THEN 0
    ELSE 10 * DecVal(SubSeq(ds, 1, Len(ds) - 1)) + (IndexOf(ds[Len(ds)], DigitChars) - 1)

AllDigits(s) == \A i \in 1..Len(s) : IsDigit(s[i])

\* Trailing zeros of a fraction's digits removed, so that equal floats are
\* equal values.
RECURSIVE TrimZeros(_)
TrimZeros(ds) ==
    IF ds # <<>> /\ ds[Len(ds)] = "0" THEN TrimZeros(SubSeq(ds, 1, Len(ds) - 1)) ELSE ds

\* A float: finite with a sign, an integer part and the digits of its
\* fraction; an infinity; or a nan.
Finite(sign, ip, fp) == [k |-> "fin", sign |-> sign, ip |-> ip, fp |-> TrimZeros(fp)]

Infinity(sign) == [k |-> "inf", sign |-> sign, ip |-> 0, fp |-> <<>>]

NaN == [k |-> "nan", sign |-> 1, ip |-> 0, fp |-> <<>>]

\* float(s) for a str s.  float() strips whitespace and reads an optional sign
\* followed by inf, infinity or nan in any case, or by a decimal literal
\* digits[.digits] or .digits; anything else is a ValueError.  (Exponents and
\* digit-group underscores, which float() also reads, are not modelled, nor is
\* rounding to binary64; no input of the model depends on them.)
FloatOfStr(s) ==
    LET t == Strip(s)
        signed == t # <<>> /\ t[1] \in {"+", "-"}
        sign == IF signed /\ t[1] = "-" THEN -1 ELSE 1
        body == IF signed THEN Tail(t) ELSE t
        dots == {i \in 1..Len(body) : body[i] = "."}
        ip == IF dots = {} THEN body
              ELSE SubSeq(body, 1, (CHOOSE i \in dots : TRUE) - 1)
        fp == IF dots = {} THEN <<>>
              ELSE SubSeq(body, (CHOOSE i \in dots : TRUE) + 1, Len(body))
    IN  IF Lower(body) \in {<<"i", "n", "f">>,
                            <<"i", "n", "f", "i", "n", "i", "t", "y">>}
        THEN Value(Infinity(sign))
        ELSE IF Lower(body) = <<"n", "a", "n">>
        THEN Value(NaN)
        ELSE IF /\ Cardinality(dots) <= 1
                /\ Len(ip) + Len(fp) >= 1
                /\ AllDigits(ip)
                /\ AllDigits(fp)
        THEN Value(Finite(sign, DecVal(ip), fp))
        ELSE Raise("ValueError")

\* float(n) for a number n.
FloatOfInt(n) == Finite(IF n < 0 THEN -1 ELSE 1, IF n < 0 THEN -n ELSE n, <<>>)

\* int(f): truncation towards zero; OverflowError on an infinity, ValueError
\* on a nan.
IntOf(f) ==
    CASE f.k = "inf" -> Raise("OverflowError")
      [] f.k = "nan" -> Raise("ValueError")
      [] OTHER -> Value(f.sign * f.ip)

----------------------------------------------------------------------------
(* fetch_govt_prices *)

KEY_PLACEHOLDER == <<"Y", "O", "U", "R", "_", "D", "A", "T", "A", "_", "G", "O", "V", "_", "A", "P", "I", "_", "K", "E", "Y">>

\* not DATA_GOV_API_KEY or DATA_GOV_API_KEY == "YOUR_DATA_GOV_API_KEY"
KeyUnusable(key) == ~Truthy(key) \/ key = KEY_PLACEHOLDER

\* The sample record returned without a usable API key.
SampleNoKey ==
    [crop |-> StrPotato, price |-> 1500, state |-> StrUttarPradesh, source |-> "sample"]

\* state or default
Or(state, default) == IF Truthy(state) THEN state ELSE default

\* The sample record returned for a response without records.
SampleNoRecords(state) ==
    [crop |-> StrRice, price |-> 2500, state |-> Or(state, StrTamilNadu), source |-> "sample"]

\* The sample record returned when every record was skipped.
SampleAllInvalid(state) ==
    [crop |-> StrWheat, price |-> 2000, state |-> Or(state, StrPunjab), source |-> "sample"]

\* The sample record returned on a RequestException.
SampleOnError(state) ==
    [crop |-> StrTomato, price |-> 1500, state |-> Or(state, StrKarnataka), source |-> "sample"]

\* int(float(str(r.get("modal_price", "0").replace(',', '')) or 0))
ParsePrice(r) ==
    LET v == DictGet(r.modal_price, JStr(<<"0">>))
    IN  IF v.t # "str" THEN Raise("AttributeError")
        ELSE LET s == Remove(v.s, ",")
                 f == IF s = <<>> THEN Value(FloatOfInt(0)) ELSE FloatOfStr(s)
             IN  IF f.exc # "none" THEN f ELSE IntOf(f.v)

\* r.get(field, default).title()
TitleOf(v, default) ==
    LET x == DictGet(v, JStr(default))
    IN  IF x.t # "str" THEN Raise("AttributeError") ELSE Value(Title(x.s))

\* The price test of the loop with zero let through.
SkipPrice_negative_only(price) == price < 0

\* if price <= 0: continue
SkipPrice(price) == price <= 0

\* One pass of the loop body over record r: the record to append, "skip"
\* (continue, or an exception the inner try catches), or the exception that
\* leaves the loop.  The district and market fields are computed as the state
\* field is and are left out of the record.
ProcessRecord(r) ==
    LET p == ParsePrice(r)
        crop == TitleOf(r.commodity, StrUnknownCrop)
        st == TitleOf(r.state, <<>>)
    IN  IF p.exc \in {"ValueError", "AttributeError"} THEN [kind |-> "skip"]
        ELSE IF p.exc # "none" THEN [kind |-> "raise", exc |-> p.exc]
        ELSE IF SkipPrice(p.v) THEN [kind |-> "skip"]
        ELSE IF crop.exc # "none" \/ st.exc # "none" THEN [kind |-> "skip"]
        ELSE [kind |-> "append",
              rec |-> [crop |-> crop.v, price |-> p.v, state |-> st.v, source |-> "govt"]]

RECURSIVE ProcessRecords(_, _)
\* for r in records: ... govt_prices.append(...)
ProcessRecords(records, govt_prices) ==
    IF records = <<>> THEN [exc |-> "none", v |-> govt_prices]
    ELSE LET o == ProcessRecord(Head(records))
         IN  CASE o.kind = "raise" -> [exc |-> o.exc, v |-> <<>>]
               [] o.kind = "skip" -> ProcessRecords(Tail(records), govt_prices)
               [] OTHER -> ProcessRecords(Tail(records), Append(govt_prices, o.rec))

\* if not govt_prices: return [sample]; return govt_prices -- where o is the
\* outcome of the loop.
Collected(o, state) ==
    IF o.exc = "none" /\ o.v = <<>>
    THEN [exc |-> "none", v |-> <<SampleAllInvalid(state)>>]
    ELSE o

\* The try block and its except clause, for the normalized state filter.
Request(state, up) ==
    IF up.err THEN [exc |-> "none", v |-> <<SampleOnError(state)>>]
    ELSE IF up.records = <<>> THEN [exc |-> "none", v |-> <<SampleNoRecords(state)>>]
    ELSE Collected(ProcessRecords(up.records, <<>>), state)

\* fetch_govt_prices(state, limit) under API key `key`, where the upstream
\* answers `up`: up.err when requests.get, raise_for_status or json raises a
\* RequestException, else up.records are the response's records.  The result
\* is the returned list, or the exception that leaves the function.  limit is
\* only passed on to the upstream, whose answer is any of the responses.
fetch_govt_prices(key, state, up) ==
    IF KeyUnusable(key) THEN [exc |-> "none", v |-> <<SampleNoKey>>]
    ELSE Request(IF Truthy(state) THEN normalize_state_name(state) ELSE state, up)

----------------------------------------------------------------------------
(* get_cached_govt_data: its refresh test *)

\* The refresh test without the state filter.
NeedsFetch_date_only(last, today, state) == last # today

\* The refresh test with a cache that is refreshed once and never again.
NeedsFetch_first_only(last, today, state) == last = -1 \/ Truthy(state)

\* _last_fetch_date != today or state
NeedsFetch(last, today, state) == last # today \/ Truthy(state)

----------------------------------------------------------------------------
(* add_crop *)

REQUIRED_FIELDS == <<"crop_name", "price_per_kg", "quantity_kg", "location", "contact">>

StrLocalFarmer == <<"L", "o", "c", "a", "l", " ", "F", "a", "r", "m", "e", "r">>

\* The check of the required fields that looks at the text fields only.
MissingFields_text_only(crop_data) ==
    SelectSeq(REQUIRED_FIELDS, LAMBDA f : /\ f \in {"crop_name", "location", "contact"}
                                          /\ crop_data[f].t = "absent")

\* [field for field in required_fields if field not in crop_data]
MissingFields(crop_data) ==
    SelectSeq(REQUIRED_FIELDS, LAMBDA f : crop_data[f].t = "absent")

\* v.strip(): an AttributeError unless v is a str.
StripOf(v) == IF v.t # "str" THEN Raise("AttributeError") ELSE Value(Strip(v.s))

\* float(v): of a str, of a number; a TypeError for None.
FloatOf(v) ==
    CASE v.t = "str" -> FloatOfStr(v.s)
      [] v.t = "num" -> Value(FloatOfInt(v.n))
      [] OTHER -> Raise("TypeError")

\* The id of the next listing, counted from zero.
NextId_from_zero(db) == Len(db)

\* len(marketplace_db) + 1
NextId(db) == Len(db) + 1

\* The values of the crop dict, each the outcome of its expression, in the
\* order they are evaluated.
CropParts(crop_data) ==
    << StripOf(crop_data.crop_name),
       FloatOf(crop_data.price_per_kg),
       FloatOf(crop_data.quantity_kg),
       StripOf(crop_data.location),
       StripOf(crop_data.contact),
       StripOf(DictGet(crop_data.farmer_name, JStr(StrLocalFarmer))) >>

\* The first exception raised while the crop dict is built, "none" if none is.
FirstExc(parts) ==
    IF \A i \in 1..Len(parts) : parts[i].exc = "none" THEN "none"
    ELSE parts[CHOOSE i \in 1..Len(parts) :
                   /\ parts[i].exc # "none"
                   /\ \A j \in 1..(i - 1) : parts[j].exc = "none"].exc

\* The crop dict.  The timestamp is the time in minutes: isoformat() strings
\* of one format order as their times do.
Crop(parts, id, time) ==
    [id |-> id, crop_name |-> parts[1].v, price_per_kg |-> parts[2].v,
     quantity_kg |-> parts[3].v, location |-> parts[4].v, contact |-> parts[5].v,
     farmer_name |-> parts[6].v, timestamp |-> time, source |-> "user"]

\* The value of 'data' in a result that has none.
NoCrop ==
    [id |-> 0, crop_name |-> <<>>, price_per_kg |-> NaN, quantity_kg |-> NaN,
     location |-> <<>>, contact |-> <<>>, farmer_name |-> <<>>, timestamp |-> 0,
     source |-> "none"]

\* {'success': False, 'error': str(e)}: the error is kept as the exception's
\* type and, for the missing-fields ValueError, the fields its message lists.
Failure(exc, missing) ==
    [success |-> FALSE, data |-> NoCrop, error |-> [exc |-> exc, missing |-> missing]]

\* {'success': True, 'message': ..., 'data': crop}
Success(crop) ==
    [success |-> TRUE, data |-> crop, error |-> [exc |-> "none", missing |-> <<>>]]

\* What add_crop(crop_data) returns at time `time` when marketplace_db is db;
\* on success its 'data' is the listing appended to marketplace_db.
add_crop(crop_data, db, time) ==
    IF MissingFields(crop_data) # <<>>
    THEN Failure("ValueError", MissingFields(crop_data))
    ELSE IF FirstExc(CropParts(crop_data)) # "none"
    THEN Failure(FirstExc(CropParts(crop_data)), <<>>)
    ELSE Success(Crop(CropParts(crop_data), NextId(db), time))

----------------------------------------------------------------------------
(* State *)

VARIABLES
    normIn,             \* normalize_state_name: the argument
    normOut,            \* its result, NotRun before the call
    normAgain,          \* the result of normalizing normOut, NotRun before that call
    DATA_GOV_API_KEY,   \* the API key read from the environment at import
    fState,             \* fetch_govt_prices: the state argument
    fUp,                \* the upstream's answer to its request
    fOut,               \* its outcome, NotRun before the call
    cached_data,        \* _cached_data
    last_fetch_date,    \* _last_fetch_date, NoDate for None
    now,                \* datetime.now(), in minutes
    calls,              \* history: the number of get_cached_govt_data calls made
    lastCall,           \* history: the latest get_cached_govt_data call
    lastRefresh,        \* history: the time _cached_data was last assigned
    marketplace_db,     \* marketplace_db
    adds,               \* history: the number of add_crop calls made
    okAdds,             \* history: the number of them that returned success
    lastAdd,            \* history: the latest add_crop call and what it returned
    addPc,              \* concurrent add_crop: where each request thread is
    addLocal,           \* concurrent add_crop: the crop dict each thread has built
    cachePc,            \* concurrent get_cached_govt_data: where each thread is
    cacheLocal,         \* concurrent get_cached_govt_data: each thread's locals
    lastMarket,         \* history: the latest get_marketplace_data call
    chat_sessions,      \* chat_sessions
    lastChat            \* history: the latest handle_chatbot_message call

normVars == <<normIn, normOut, normAgain>>

fetchVars == <<fState, fUp, fOut>>

cacheVars == <<cached_data, last_fetch_date, now, calls, lastCall, lastRefresh>>

storeVars == <<marketplace_db, adds, okAdds, lastAdd>>

threadVars == <<addPc, addLocal, cachePc, cacheLocal>>

marketVars == <<lastMarket>>

chatVars == <<chat_sessions, lastChat>>

\* The variables of the concurrent runs, of the combined view and of the chatbot.
restVars == <<threadVars, marketVars, chatVars>>

vars == <<normVars, DATA_GOV_API_KEY, fetchVars, cacheVars, storeVars, restVars>>

\* The value of a result variable before its call has run.
NotRun == <<"NotRun">>


\* None for _last_fetch_date, and for a time before any refresh.
NoDate == -1

\* The minutes of a calendar day: datetime.now().date() of a time in minutes.
MinutesPerDay == 1440

DateOf(time) == time \div MinutesPerDay

\* The record of a call before any call was made.
NoCall ==
    [state |-> None, t |-> NoDate, fetched |-> FALSE, up |-> "none", exc |-> "none",
     result |-> <<>>, refreshed_at |-> NoDate, had_cache |-> FALSE]

\* The parts of the state a specification does not use, at rest.
NormIdle == normIn = <<>> /\ normOut = NotRun /\ normAgain = NotRun

\* The value of fOut before the call has run.
NoOutcome == [exc |-> "notrun", v |-> <<>>]

FetchIdle == fState = None /\ fUp = [err |-> FALSE, records |-> <<>>] /\ fOut = NoOutcome

\* The module's globals after import: _cached_data = [], _last_fetch_date = None.
CacheStart ==
    /\ cached_data = <<>>
    /\ last_fetch_date = NoDate
    /\ now = 0
    /\ calls = 0
    /\ lastCall = NoCall
    /\ lastRefresh = NoDate

\* The record of an add_crop call before any call was made.
NoAdd == [crop_data |-> <<>>, len_before |-> 0, returned |-> Failure("none", <<>>)]

\* The module's global after import: marketplace_db = [].
StoreStart ==
    /\ marketplace_db = <<>>
    /\ adds = 0
    /\ okAdds = 0
    /\ lastAdd = NoAdd

\* The request threads of the concurrent runs.
MaxThreads == 2

Threads == 1..MaxThreads

\* The locals of a get_cached_govt_data call that has not started.
NoLocals ==
    [state |-> None, today |-> NoDate, up |-> [err |-> FALSE, records |-> <<>>],
     fetched |-> FALSE, own |-> <<>>, returned |-> FALSE, result |-> <<>>]

\* No request is in flight.
ThreadsIdle ==
    /\ addPc = [t \in Threads |-> "idle"]
    /\ addLocal = [t \in Threads |-> NoCrop]
    /\ cachePc = [t \in Threads |-> "idle"]
    /\ cacheLocal = [t \in Threads |-> NoLocals]

\* The record of a get_marketplace_data call before any call was made.
NoMarket ==
    [state |-> None, limit |-> 0, listings |-> 0, govt |-> <<>>, exc |-> "none",
     result |-> <<>>, called |-> FALSE]

MarketIdle == lastMarket = NoMarket

\* The value of a key that a dict does not hold.
Unset == <<"Unset">>

StrEn == <<"e", "n">>

StrHi == <<"h", "i">>

\* The session ids of the requests: ChatRequest's default and a second one.
SessionIds == { "default", "farmer2" }

\* A session id that is not in chat_sessions.
NoSession ==
    [exists |-> FALSE, current_slot |-> "location",
     data |-> [location |-> Unset, crop |-> Unset, stage |-> Unset, language |-> Unset],
     language |-> StrEn, conversation_active |-> FALSE]

\* The reply of a call, before any call was made.
NoReply == [kind |-> "none", slot |-> "none", language |-> StrEn]

\* The record of a handle_chatbot_message call before any call was made.
NoChat ==
    [session_id |-> "default", message |-> <<>>, language |-> StrEn, before |-> NoSession,
     reply |-> NoReply, n |-> 0]

\* chat_sessions is imported from services.chatbot_state; it starts as an
\* empty dict.
ChatStart ==
    /\ chat_sessions = [id \in SessionIds |-> NoSession]
    /\ lastChat = NoChat

\* The parts of the state added by the concurrent runs, the combined view and
\* the chatbot, at rest.
RestIdle == ThreadsIdle /\ MarketIdle /\ ChatStart

----------------------------------------------------------------------------
(* The normalizer applied to bounded inputs *)

\* Spellings of an alias that differ from it in case and surrounding
\* whitespace only.
Variants(k) ==
    { k, Upper(k), Title(k), <<" ">> \o k, k \o <<" ">>,
      <<"\t">> \o Upper(k) \o <<" ", "\n">> }

\* Strings whose trimmed lower-cased form is no key of state_mapping.
UnmappedInputs ==
    { StrKerala, <<" ">> \o StrKerala \o <<" ">>, Upper(StrKerala), Lower(StrKerala),
      StrKarnataka, Lower(StrKarnataka), StrMaharashtra, StrNCTofDelhi,
      <<" ">> \o StrNCTofDelhi, StrPunjab \o <<"\n">>,
      <<>>, <<" ">>,
      <<"t", "a", "m", "i", "l", " ", " ", "n", "a", "d", "u">>,
      <<"T", "a", "m", "i", "l", "_", "N", "a", "d", "u">>,
      <<"n", "e", "w", " ", "d", "e", "l", "h", "i">> }

NormInputs ==
    UNION { Variants(state_mapping[i][1]) : i \in 1..Len(state_mapping) }
        \cup { state_mapping[i][2] : i \in 1..Len(state_mapping) }
        \cup UnmappedInputs

NormInit ==
    /\ normIn \in NormInputs
    /\ normOut = NotRun
    /\ normAgain = NotRun
    /\ DATA_GOV_API_KEY = None
    /\ FetchIdle
    /\ CacheStart
    /\ StoreStart
    /\ RestIdle

Normalize ==
    /\ normOut = NotRun
    /\ normOut' = normalize_state_name(normIn)
    /\ UNCHANGED <<normIn, normAgain, DATA_GOV_API_KEY, fetchVars, cacheVars, storeVars, restVars>>

NormalizeAgain ==
    /\ normOut # NotRun
    /\ normAgain = NotRun
    /\ normAgain' = normalize_state_name(normOut)
    /\ UNCHANGED <<normIn, normOut, DATA_GOV_API_KEY, fetchVars, cacheVars, storeVars, restVars>>

NormNext == Normalize \/ NormalizeAgain

SpecNorm == NormInit /\ [][NormNext]_vars

----------------------------------------------------------------------------
(* Upstream responses *)

RawRecord(price, commodity, state) ==
    [modal_price |-> price, commodity |-> commodity, state |-> state]

RawPotato == RawRecord(JStr(<<"1", ",", "5", "0", "0">>), JStr(<<"p", "o", "t", "a", "t", "o">>), JStr(<<"U", "P">>))

RawRice == RawRecord(JStr(<<"2", "0", "0", "0", ".", "7", "5">>), JStr(<<"R", "I", "C", "E">>), JStr(<<"k", "e", "r", "a", "l", "a">>))

RawNoCommodity == RawRecord(JStr(<<" ", "9", "0", "0", " ">>), JAbsent, JAbsent)

RawNotReported == RawRecord(JStr(<<"N", "R">>), JStr(<<"o", "n", "i", "o", "n">>), JStr(<<"k", "e", "r", "a", "l", "a">>))

RawInfinite == RawRecord(JStr(<<"i", "n", "f">>), JStr(<<"o", "n", "i", "o", "n">>), JStr(<<"k", "e", "r", "a", "l", "a">>))

RawZero == RawRecord(JStr(<<"0">>), JStr(StrWheat), JStr(StrPunjab))

RawNegative == RawRecord(JStr(<<"-", "5">>), JStr(StrWheat), JStr(StrPunjab))

\* Records of an upstream response: the modal price with a thousands separator,
\* with a fraction, padded, zero, negative, below one, not a number, empty,
\* absent, a JSON number, null, an infinity, a nan; and a null commodity.
RawRecords ==
    { RawPotato, RawRice, RawNoCommodity, RawNotReported, RawInfinite,
      RawZero, RawNegative,
      RawRecord(JStr(<<"0", ".", "5">>), JStr(StrWheat), JStr(StrPunjab)),
      RawRecord(JStr(<<>>), JStr(StrWheat), JStr(StrPunjab)),
      RawRecord(JAbsent, JStr(StrWheat), JStr(StrPunjab)),
      RawRecord(JNum(1500), JStr(StrWheat), JStr(StrPunjab)),
      RawRecord(JNull, JStr(StrWheat), JStr(StrPunjab)),
      RawRecord(JStr(<<"n", "a", "n">>), JStr(StrWheat), JStr(StrPunjab)),
      RawRecord(JStr(<<"7", "0", "0">>), JNull, JStr(StrPunjab)) }

\* The longest response the fetcher is applied to.
MaxRecords == 2

SeqsUpTo(S, n) == UNION { [1..k -> S] : k \in 0..n }

\* The upstream's answers: a RequestException, or a response with records.
Responses(S, n) ==
    { [err |-> TRUE, records |-> <<>>] }
        \cup { [err |-> FALSE, records |-> rs] : rs \in SeqsUpTo(S, n) }

StrMumbai == <<"m", "u", "m", "b", "a", "i">>

StrRealKey == <<"k", "e", "y">>

\* Values of DATA_GOV_API_KEY: unset, empty, the placeholder, a key.
KeyValues == { None, <<>>, KEY_PLACEHOLDER, StrRealKey }

\* Values of the state argument: None, empty, an alias, an unmapped name.
StateValues == { None, <<>>, StrMumbai, <<" ">> \o StrKerala }

----------------------------------------------------------------------------
(* The fetcher applied to bounded inputs *)

FetchInit ==
    /\ DATA_GOV_API_KEY \in KeyValues
    /\ fState \in StateValues
    /\ fUp \in Responses(RawRecords, MaxRecords)
    /\ fOut = NoOutcome
    /\ NormIdle
    /\ CacheStart
    /\ StoreStart
    /\ RestIdle

Fetch ==
    /\ fOut = NoOutcome
    /\ fOut' = fetch_govt_prices(DATA_GOV_API_KEY, fState, fUp)
    /\ UNCHANGED <<normVars, DATA_GOV_API_KEY, fState, fUp, cacheVars, storeVars, restVars>>

FetchNext == Fetch

SpecFetch == FetchInit /\ [][FetchNext]_vars

----------------------------------------------------------------------------
(* The cache under calls and the passing of time *)

\* Records of the upstream responses the cache is run against.
CacheRawRecords == { RawPotato, RawRice, RawNotReported, RawInfinite }

\* The longest response the cache is run against.
MaxCacheRecords == 1

\* Values of DATA_GOV_API_KEY: unset, a key.
CacheKeys == { None, StrRealKey }

\* Values of the state argument of the calls: None, empty, an alias, an
\* unmapped name.
CacheStates == { None, <<>>, StrMumbai, StrKerala }

\* The process starts at 23:40 of day 0; time passes in steps of 10 and of 40
\* minutes, up to MaxNow, so that calls fall less and more than 30 minutes
\* apart, on one day and across midnight.
StartTimes == { 1420 }

TickSteps == { 10, 40 }

MaxNow == 1490

\* The most calls of one run.
MaxCalls == 3

CacheInit ==
    /\ DATA_GOV_API_KEY \in CacheKeys
    /\ cached_data = <<>>
    /\ last_fetch_date = NoDate
    /\ now \in StartTimes
    /\ calls = 0
    /\ lastCall = NoCall
    /\ lastRefresh = NoDate
    /\ NormIdle
    /\ FetchIdle
    /\ StoreStart
    /\ RestIdle

StrNaduUpper == <<"N", "A", "D", "U">>

\* Values of the state argument of get_marketplace_data: None, and a part of
\* a location in another case.
MarketStates == { None, StrNaduUpper }

\* fetch_govt_prices over the keys, state arguments and upstream answers of
\* this specification, computed once.
FetchTable ==
    [key \in CacheKeys, state \in CacheStates \cup MarketStates,
     up \in Responses(CacheRawRecords, MaxCacheRecords) |->
        fetch_govt_prices(key, state, up)]

\* How the upstream was asked by a fetch: not at all without a usable key.
Asked(up) ==
    IF KeyUnusable(DATA_GOV_API_KEY) THEN "none" ELSE IF up.err THEN "error" ELSE "ok"

\* The history record of a call made now, before its outcome is known.
ThisCall(state) ==
    [state |-> state, t |-> now, fetched |-> FALSE, up |-> "none", exc |-> "none",
     result |-> cached_data, refreshed_at |-> lastRefresh,
     had_cache |-> cached_data # <<>>]

\* _cached_data = fetch_govt_prices(state=state, limit=limit)
\* _last_fetch_date = today
\* where o is the outcome of fetch_govt_prices: an exception leaves the
\* function before either assignment.
Refresh(state, up, o) ==
    IF o.exc = "none"
    THEN /\ cached_data' = o.v
         /\ last_fetch_date' = DateOf(now)
         /\ lastRefresh' = now
         /\ lastCall' = [ThisCall(state) EXCEPT !.fetched = TRUE, !.up = Asked(up),
                                                !.result = o.v]
    ELSE /\ UNCHANGED <<cached_data, last_fetch_date, lastRefresh>>
         /\ lastCall' = [ThisCall(state) EXCEPT !.fetched = TRUE, !.up = Asked(up),
                                                !.exc = o.exc, !.result = <<>>]

\* get_cached_govt_data(state, limit), the upstream answering `up` if asked.
get_cached_govt_data(state, up) ==
    IF NeedsFetch(last_fetch_date, DateOf(now), state)
    THEN Refresh(state, up, FetchTable[DATA_GOV_API_KEY, state, up])
    ELSE /\ UNCHANGED <<cached_data, last_fetch_date, lastRefresh>>
         /\ lastCall' = ThisCall(state)

Call ==
    /\ calls < MaxCalls
    /\ \E state \in CacheStates, up \in Responses(CacheRawRecords, MaxCacheRecords) :
           get_cached_govt_data(state, up)
    /\ calls' = calls + 1
    /\ UNCHANGED <<normVars, DATA_GOV_API_KEY, fetchVars, now, storeVars, restVars>>

Tick ==
    /\ \E d \in TickSteps :
           /\ now + d <= MaxNow
           /\ now' = now + d
    /\ UNCHANGED <<normVars, DATA_GOV_API_KEY, fetchVars, cached_data, last_fetch_date,
                   calls, lastCall, lastRefresh, storeVars, restVars>>

CacheNext == Call \/ Tick

SpecCache == CacheInit /\ [][CacheNext]_vars

----------------------------------------------------------------------------
(* Claims about get_cached_govt_data, under SpecCache *)

\* A step that is a call of get_cached_govt_data.
IsCall == calls' = calls + 1

\* C1: of two successive calls without a state filter, the second invokes the
\* fetcher exactly when it is made on a later calendar day than the first (the
\* staleness window of the code): within one window the fetcher is invoked
\* once in total, and a call after the window invokes it again.
C1_OncePerWindow ==
    [][(IsCall /\ calls >= 1 /\ ~Truthy(lastCall.state) /\ ~Truthy(lastCall'.state))
          => (lastCall'.fetched <=> DateOf(lastCall.t) # DateOf(lastCall'.t))]_vars

\* C2: every call that carries a non-empty state filter invokes the fetcher,
\* whatever the cache holds and however recently it was refreshed.
C2_ScopedAlwaysFetches ==
    (calls >= 1 /\ Truthy(lastCall.state)) => lastCall.fetched

\* A call with a state filter, made in the minute the cache was refreshed,
\* has invoked the fetcher.
C2_Witness ==
    /\ calls >= 2
    /\ Truthy(lastCall.state)
    /\ lastCall.had_cache
    /\ lastCall.refreshed_at = lastCall.t
    /\ lastCall.fetched

\* C3: a call with a state filter leaves the cached records and the
\* last-fetch date unchanged.
C3_ScopedBypassesCache ==
    [][(IsCall /\ Truthy(lastCall'.state))
          => (cached_data' = cached_data /\ last_fetch_date' = last_fetch_date)]_vars

\* C4: when a call without a state filter fetches and the upstream request
\* fails, a non-empty cache is kept and returned.
C4_FailedFetchKeepsCache ==
    [][(IsCall /\ ~Truthy(lastCall'.state) /\ lastCall'.up = "error" /\ cached_data # <<>>)
          => (cached_data' = cached_data /\ lastCall'.result = cached_data)]_vars

\* C5, as claimed: a call without a state filter on a non-empty cache invokes
\* the fetcher exactly when the last refresh is more than 30 minutes old.
C5_RollingWindow ==
    (calls >= 1 /\ ~Truthy(lastCall.state) /\ lastCall.had_cache)
        => (lastCall.fetched <=> lastCall.t - lastCall.refreshed_at > 30)

\* C5, amended: a call without a state filter on a non-empty cache invokes the
\* fetcher exactly when its calendar date differs from that of the last
\* refresh.
C5_CalendarDayWindow ==
    (calls >= 1 /\ ~Truthy(lastCall.state) /\ lastCall.had_cache)
        => (lastCall.fetched <=> DateOf(lastCall.t) # DateOf(lastCall.refreshed_at))

\* A call without a state filter, more than 30 minutes after the last refresh
\* and on its calendar day, was served from the cache.
C5_Witness ==
    /\ calls >= 2
    /\ ~Truthy(lastCall.state)
    /\ lastCall.had_cache
    /\ lastCall.t - lastCall.refreshed_at > 30
    /\ DateOf(lastCall.t) = DateOf(lastCall.refreshed_at)
    /\ ~lastCall.fetched

\* C6: after any call, the call has returned a non-empty sequence and the
\* cache is non-empty.
C6_NeverEmpty ==
    calls >= 1 => (lastCall.exc = "none" /\ lastCall.result # <<>> /\ cached_data # <<>>)

----------------------------------------------------------------------------
(* Claims about fetch_govt_prices, under SpecFetch *)

\* C7: every record fetch_govt_prices returns has an integer price greater
\* than 0.
C7_PositivePrices ==
    fOut.exc = "none"
        => \A i \in 1..Len(fOut.v) : fOut.v[i].price \in Int /\ fOut.v[i].price > 0

\* A response with a record of price zero and one of negative price beside a
\* valid one has been fetched, and upstream records were returned.
C7_Witness ==
    /\ fOut.exc = "none"
    /\ \E i \in 1..Len(fUp.records) : fUp.records[i] \in {RawZero, RawNegative}
    /\ \E i \in 1..Len(fOut.v) : fOut.v[i].source = "govt"

\* The records of RawRecords with a valid modal price and valid text fields,
\* and the price each is returned with.
ValidRaw == { RawPotato, RawRice, RawNoCommodity }

ExpectedPrice(r) ==
    CASE r = RawPotato -> 1500
      [] r = RawRice -> 2000
      [] r = RawNoCommodity -> 900

\* C8: a record whose modal price is not a number is skipped without aborting
\* the fetch: the valid records are returned in upstream order, and one
\* placeholder record if there is none.
C8_BadPriceSkipped ==
    (fOut # NoOutcome /\ ~KeyUnusable(DATA_GOV_API_KEY) /\ ~fUp.err /\ fUp.records # <<>>)
        => /\ fOut.exc = "none"
           /\ IF SelectSeq(fUp.records, LAMBDA r : r \in ValidRaw) = <<>>
              THEN Len(fOut.v) = 1 /\ fOut.v[1].source = "sample"
              ELSE /\ Len(fOut.v) = Len(SelectSeq(fUp.records, LAMBDA r : r \in ValidRaw))
                   /\ \A i \in 1..Len(fOut.v) :
                          /\ fOut.v[i].source = "govt"
                          /\ fOut.v[i].price =
                                 ExpectedPrice(SelectSeq(fUp.records,
                                                         LAMBDA r : r \in ValidRaw)[i])

----------------------------------------------------------------------------
(* Claims about normalize_state_name, under SpecNorm *)

StrKarnatka == <<"k", "a", "r", "n", "a", "t", "k", "a">>

StrTamilnadu == <<"t", "a", "m", "i", "l", "n", "a", "d", "u">>

\* C9: every spelling of an alias that differs from it in case and surrounding
\* whitespace only is mapped to the alias's canonical name (mumbai to
\* Maharashtra, karnatka to Karnataka, tamilnadu to Tamil Nadu); a string that
\* is no alias is returned exactly as given; and normalizing a result returns
\* that result.
C9_Normalizer ==
    /\ normOut # NotRun =>
          /\ \A i \in 1..Len(state_mapping) :
                 normIn \in Variants(state_mapping[i][1]) => normOut = state_mapping[i][2]
          /\ normIn \in Variants(StrMumbai) => normOut = StrMaharashtra
          /\ normIn \in Variants(StrKarnatka) => normOut = StrKarnataka
          /\ normIn \in Variants(StrTamilnadu) => normOut = StrTamilNadu
          /\ normIn \in UnmappedInputs => normOut = normIn
    /\ normAgain # NotRun => normAgain = normOut

\* An alias in upper case between whitespace has been normalized, twice.
C9_Witness ==
    /\ normIn = <<"\t">> \o Upper(StrMumbai) \o <<" ", "\n">>
    /\ normOut = StrMaharashtra
    /\ normAgain # NotRun

----------------------------------------------------------------------------
(* The listing store under add_crop calls *)

CropData(farmer, crop, price, quantity, location, contact) ==
    [farmer_name |-> farmer, crop_name |-> crop, price_per_kg |-> price,
     quantity_kg |-> quantity, location |-> location, contact |-> contact]

StrRavi == <<"R", "a", "v", "i">>

StrPhone == <<"9", "8", "4", "5", "0">>

GoodCrop == CropData(JStr(StrRavi), JStr(StrRice), JNum(20), JNum(100), JStr(StrTamilNadu), JStr(StrPhone))

\* Arguments of add_crop: complete ones (one without farmer_name, padded and
\* with numbers as strings), ones with required fields absent, with blank
\* text, with a zero price, a negative quantity, and with values of the wrong
\* type.
CropInputs ==
    { GoodCrop,
      CropData(JAbsent, JStr(<<" ">> \o StrWheat \o <<" ">>), JStr(<<"1", "2", ".", "5">>),
               JStr(<<"4", "0">>), JStr(StrKerala), JStr(StrPhone)),
      CropData(JStr(StrRavi), JStr(StrRice), JNum(20), JNum(100), JStr(StrTamilNadu), JAbsent),
      CropData(JStr(StrRavi), JStr(StrRice), JAbsent, JNum(100), JAbsent, JStr(StrPhone)),
      CropData(JStr(StrRavi), JStr(<<" ">>), JNum(20), JNum(100), JStr(<<>>), JStr(<<"\t">>)),
      CropData(JStr(StrRavi), JStr(StrRice), JNum(0), JNum(100), JStr(StrTamilNadu), JStr(StrPhone)),
      CropData(JStr(StrRavi), JStr(StrRice), JNum(20), JNum(-5), JStr(StrTamilNadu), JStr(StrPhone)),
      CropData(JStr(StrRavi), JStr(StrRice), JStr(<<"a", "b", "c">>), JNum(100),
               JStr(StrTamilNadu), JStr(StrPhone)),
      CropData(JStr(StrRavi), JNull, JNum(20), JNum(100), JStr(StrTamilNadu), JStr(StrPhone)),
      CropData(JNull, JStr(StrRice), JNum(20), JNum(100), JStr(StrTamilNadu), JStr(StrPhone)),
      CropData(JStr(StrRavi), JStr(StrRice), JNull, JNum(100), JStr(StrTamilNadu), JStr(StrPhone)) }

\* The most add_crop calls of one run, and the last minute of a run.
MaxAdds == 3

MaxStoreNow == 2

StoreInit ==
    /\ StoreStart
    /\ now = 0
    /\ DATA_GOV_API_KEY = None
    /\ cached_data = <<>>
    /\ last_fetch_date = NoDate
    /\ calls = 0
    /\ lastCall = NoCall
    /\ lastRefresh = NoDate
    /\ NormIdle
    /\ FetchIdle
    /\ RestIdle

\* marketplace_db.append(crop), when add_crop has built the crop.
Appended(db, returned) == IF returned.success THEN Append(db, returned.data) ELSE db

AddCrop ==
    /\ adds < MaxAdds
    /\ \E crop_data \in CropInputs :
           /\ marketplace_db' =
                  Appended(marketplace_db, add_crop(crop_data, marketplace_db, now))
           /\ lastAdd' = [crop_data |-> crop_data, len_before |-> Len(marketplace_db),
                          returned |-> add_crop(crop_data, marketplace_db, now)]
           /\ okAdds' = IF add_crop(crop_data, marketplace_db, now).success
                        THEN okAdds + 1 ELSE okAdds
    /\ adds' = adds + 1
    /\ UNCHANGED <<normVars, DATA_GOV_API_KEY, fetchVars, cacheVars, restVars>>

StoreTick ==
    /\ now < MaxStoreNow
    /\ now' = now + 1
    /\ UNCHANGED <<normVars, DATA_GOV_API_KEY, fetchVars, cached_data, last_fetch_date,
                   calls, lastCall, lastRefresh, storeVars, restVars>>

StoreNext == AddCrop \/ StoreTick

SpecStore == StoreInit /\ [][StoreNext]_vars

----------------------------------------------------------------------------
(* Claims about add_crop, under SpecStore *)

\* C10: in a sequential run the n-th successful add_crop call stores and
\* returns a listing with id n; the listing at position i has id i; a failed
\* call stores nothing and consumes no id; and the store only grows by
\* appending.
C10_SequentialIds ==
    /\ [](/\ Len(marketplace_db) = okAdds
          /\ \A i \in 1..Len(marketplace_db) : marketplace_db[i].id = i
          /\ lastAdd.returned.success =>
                 /\ lastAdd.returned.data.id = okAdds
                 /\ marketplace_db[Len(marketplace_db)] = lastAdd.returned.data
          /\ (adds >= 1 /\ ~lastAdd.returned.success) =>
                 Len(marketplace_db) = lastAdd.len_before)
    /\ [][\/ marketplace_db' = marketplace_db
          \/ /\ Len(marketplace_db') = Len(marketplace_db) + 1
             /\ SubSeq(marketplace_db', 1, Len(marketplace_db)) = marketplace_db]_vars

\* Two listings are stored, the second by the third call, after a call that
\* failed.
C10_Witness ==
    /\ adds = 3
    /\ okAdds = 2
    /\ lastAdd.returned.success
    /\ lastAdd.returned.data.id = 2
    /\ Len(marketplace_db) = 2


\* The required fields, and those of them absent from the latest argument.
RequiredNames == {"crop_name", "price_per_kg", "quantity_kg", "location", "contact"}

AbsentOf(crop_data) == {f \in RequiredNames : crop_data[f].t = "absent"}

\* C11: an add_crop call whose argument lacks a required field fails with
\* the validation error (ValueError, "Missing required fields: ..."), the
\* error lists exactly the absent required fields, each once, and the call
\* leaves marketplace_db as it was.
C11_MissingFieldsNamed ==
    /\ []((adds >= 1 /\ AbsentOf(lastAdd.crop_data) # {}) =>
              /\ ~lastAdd.returned.success
              /\ lastAdd.returned.error.exc = "ValueError"
              /\ {lastAdd.returned.error.missing[i] :
                      i \in 1..Len(lastAdd.returned.error.missing)}
                     = AbsentOf(lastAdd.crop_data)
              /\ Len(lastAdd.returned.error.missing)
                     = Cardinality(AbsentOf(lastAdd.crop_data))
              /\ Len(marketplace_db) = lastAdd.len_before)
    /\ [][(adds' = adds + 1 /\ AbsentOf(lastAdd'.crop_data) # {}) =>
              marketplace_db' = marketplace_db]_vars

\* A call without price_per_kg and location has failed on a store that holds
\* a listing.
C11_Witness ==
    /\ adds >= 2
    /\ AbsentOf(lastAdd.crop_data) = {"price_per_kg", "location"}
    /\ lastAdd.returned.error.missing = <<"price_per_kg", "location">>
    /\ Len(marketplace_db) = 1
    /\ lastAdd.len_before = 1

\* C12: add_crop rejects an argument whose crop_name, location or contact is
\* empty or whitespace-only, so that every stored listing has a non-empty
\* crop_name, location and contact.
C12_BlankTextRejected ==
    /\ \A i \in 1..Len(marketplace_db) :
           /\ marketplace_db[i].crop_name # <<>>
           /\ marketplace_db[i].location # <<>>
           /\ marketplace_db[i].contact # <<>>
    /\ (adds >= 1 /\ AbsentOf(lastAdd.crop_data) = {}
          /\ \E f \in {"crop_name", "location", "contact"} :
                 /\ lastAdd.crop_data[f].t = "str"
                 /\ Strip(lastAdd.crop_data[f].s) = <<>>) =>
           /\ ~lastAdd.returned.success
           /\ Len(marketplace_db) = lastAdd.len_before

\* A float greater than zero.
PositiveFloat(f) ==
    \/ f.k = "inf" /\ f.sign = 1
    \/ f.k = "fin" /\ f.sign = 1 /\ (f.ip > 0 \/ f.fp # <<>>)

\* C13: every stored listing has price_per_kg > 0 and quantity_kg > 0, and a
\* call with a zero or negative price or quantity stores nothing.
C13_PositiveNumbers ==
    /\ \A i \in 1..Len(marketplace_db) :
           /\ PositiveFloat(marketplace_db[i].price_per_kg)
           /\ PositiveFloat(marketplace_db[i].quantity_kg)
    /\ (adds >= 1 /\ lastAdd.returned.success) =>
           /\ PositiveFloat(lastAdd.returned.data.price_per_kg)
           /\ PositiveFloat(lastAdd.returned.data.quantity_kg)

----------------------------------------------------------------------------
(* The listing store under concurrent add_crop requests *)

\* The route is a plain def, so each request runs add_crop on a thread of the
\* server's pool.  A thread reads len(marketplace_db) while it builds the crop
\* dict and appends the dict afterwards; other threads run in between.

\* Arguments of the concurrent requests: two complete ones and one that fails.
ConcCropInputs ==
    { GoodCrop,
      CropData(JAbsent, JStr(StrWheat), JNum(12), JNum(40), JStr(StrKerala), JStr(StrPhone)),
      CropData(JStr(StrRavi), JStr(StrRice), JNum(20), JNum(100), JStr(StrTamilNadu), JAbsent) }

\* The most add_crop requests of one concurrent run.
MaxConcAdds == 3

ConcAddInit ==
    /\ StoreStart
    /\ now = 0
    /\ DATA_GOV_API_KEY = None
    /\ cached_data = <<>>
    /\ last_fetch_date = NoDate
    /\ calls = 0
    /\ lastCall = NoCall
    /\ lastRefresh = NoDate
    /\ NormIdle
    /\ FetchIdle
    /\ RestIdle

\* Thread t runs add_crop up to its append: the required-field check and the
\* crop dict with 'id': len(marketplace_db) + 1.  A call that fails returns
\* here.
BuildCrop(t) ==
    /\ addPc[t] = "idle"
    /\ adds < MaxConcAdds
    /\ \E crop_data \in ConcCropInputs :
           /\ addLocal' = [addLocal EXCEPT ![t] = add_crop(crop_data, marketplace_db, now).data]
           /\ addPc' = [addPc EXCEPT ![t] =
                            IF add_crop(crop_data, marketplace_db, now).success
                            THEN "built" ELSE "idle"]
    /\ adds' = adds + 1
    /\ UNCHANGED <<normVars, DATA_GOV_API_KEY, fetchVars, cacheVars, marketplace_db,
                   okAdds, lastAdd, cachePc, cacheLocal, marketVars, chatVars>>

\* marketplace_db.append(crop), and the return of success.
AppendCrop(t) ==
    /\ addPc[t] = "built"
    /\ marketplace_db' = Append(marketplace_db, addLocal[t])
    /\ okAdds' = okAdds + 1
    /\ addPc' = [addPc EXCEPT ![t] = "idle"]
    /\ addLocal' = [addLocal EXCEPT ![t] = NoCrop]
    /\ UNCHANGED <<normVars, DATA_GOV_API_KEY, fetchVars, cacheVars, adds, lastAdd,
                   cachePc, cacheLocal, marketVars, chatVars>>

ConcAddNext == \E t \in Threads : BuildCrop(t) \/ AppendCrop(t)

SpecConcAdd == ConcAddInit /\ [][ConcAddNext]_vars

\* C14: under concurrent add_crop requests no two stored listings share an
\* id and no listing is lost: after k successful adds the store holds k
\* listings whose ids are exactly 1..k.
C14_ConcurrentIds ==
    /\ Len(marketplace_db) = okAdds
    /\ \A i, j \in 1..Len(marketplace_db) :
           i # j => marketplace_db[i].id # marketplace_db[j].id
    /\ {marketplace_db[i].id : i \in 1..Len(marketplace_db)} = 1..okAdds

----------------------------------------------------------------------------
(* The cache under concurrent get_cached_govt_data requests *)

\* A thread evaluates the refresh test, calls fetch_govt_prices, assigns
\* _cached_data, assigns _last_fetch_date and returns what _cached_data then
\* holds: four accesses of the globals, with other threads running in between.

ConcStates == { None, StrMumbai, StrKerala }

\* Upstream answers of the concurrent requests: a record each, one of them with
\* an infinite price.
ConcResponses ==
    { [err |-> FALSE, records |-> <<RawPotato>>],
      [err |-> FALSE, records |-> <<RawRice>>],
      [err |-> FALSE, records |-> <<RawInfinite>>] }

\* The most get_cached_govt_data requests of one concurrent run.
MaxConcCalls == 3

ConcCacheInit ==
    /\ DATA_GOV_API_KEY \in CacheKeys
    /\ CacheStart
    /\ NormIdle
    /\ FetchIdle
    /\ StoreStart
    /\ RestIdle

\* today = datetime.now().date()
\* if _last_fetch_date != today or state:
EnterCall(t) ==
    /\ cachePc[t] = "idle"
    /\ calls < MaxConcCalls
    /\ \E state \in ConcStates, up \in ConcResponses :
           /\ cacheLocal' = [cacheLocal EXCEPT ![t] =
                  [NoLocals EXCEPT !.state = state, !.today = DateOf(now), !.up = up,
                       !.fetched = NeedsFetch(last_fetch_date, DateOf(now), state)]]
           /\ cachePc' = [cachePc EXCEPT ![t] =
                  IF NeedsFetch(last_fetch_date, DateOf(now), state)
                  THEN "fetch" ELSE "return"]
    /\ calls' = calls + 1
    /\ UNCHANGED <<normVars, DATA_GOV_API_KEY, fetchVars, cached_data, last_fetch_date,
                   now, lastCall, lastRefresh, storeVars, addPc, addLocal, marketVars,
                   chatVars>>

\* The outcome of the fetch_govt_prices call of thread t.
OwnFetch(t) == FetchTable[DATA_GOV_API_KEY, cacheLocal[t].state, cacheLocal[t].up]

\* _cached_data = fetch_govt_prices(state=state, limit=limit); an exception of
\* the fetch ends the call.
AssignData(t) ==
    /\ cachePc[t] = "fetch"
    /\ IF OwnFetch(t).exc = "none"
       THEN /\ cached_data' = OwnFetch(t).v
            /\ lastRefresh' = now
            /\ cacheLocal' = [cacheLocal EXCEPT ![t].own = OwnFetch(t).v]
            /\ cachePc' = [cachePc EXCEPT ![t] = "date"]
       ELSE /\ cachePc' = [cachePc EXCEPT ![t] = "idle"]
            /\ UNCHANGED <<cached_data, lastRefresh, cacheLocal>>
    /\ UNCHANGED <<normVars, DATA_GOV_API_KEY, fetchVars, last_fetch_date, now, calls,
                   lastCall, storeVars, addPc, addLocal, marketVars, chatVars>>

\* _last_fetch_date = today
AssignDate(t) ==
    /\ cachePc[t] = "date"
    /\ last_fetch_date' = cacheLocal[t].today
    /\ cachePc' = [cachePc EXCEPT ![t] = "return"]
    /\ UNCHANGED <<normVars, DATA_GOV_API_KEY, fetchVars, cached_data, now, calls,
                   lastCall, lastRefresh, storeVars, addPc, addLocal, cacheLocal,
                   marketVars, chatVars>>

\* return _cached_data
ReturnCached(t) ==
    /\ cachePc[t] = "return"
    /\ cacheLocal' = [cacheLocal EXCEPT ![t].returned = TRUE, ![t].result = cached_data]
    /\ cachePc' = [cachePc EXCEPT ![t] = "idle"]
    /\ UNCHANGED <<normVars, DATA_GOV_API_KEY, fetchVars, cached_data, last_fetch_date,
                   now, calls, lastCall, lastRefresh, storeVars, addPc, addLocal,
                   marketVars, chatVars>>

ConcCacheNext ==
    \E t \in Threads : EnterCall(t) \/ AssignData(t) \/ AssignDate(t) \/ ReturnCached(t)

SpecConcCache == ConcCacheInit /\ [][ConcCacheNext]_vars

\* C15: under concurrent get_cached_govt_data requests a call with a state
\* filter returns the result of its own fetch, and the cache's records and
\* last-fetch date are updated as one unit: records of a fetch are never in
\* the cache beside a last-fetch date that is still unset.
C15_OwnFetchAndOneUnit ==
    /\ \A t \in Threads :
           (cacheLocal[t].returned /\ Truthy(cacheLocal[t].state)) =>
               /\ cacheLocal[t].fetched
               /\ cacheLocal[t].result = cacheLocal[t].own
    /\ cached_data # <<>> => last_fetch_date # NoDate

----------------------------------------------------------------------------
(* get_marketplace_data *)

\* sub in s, for strings.
Contains(s, sub) ==
    \E i \in 0..(Len(s) - Len(sub)) : SubSeq(s, i + 1, i + Len(sub)) = sub

\* not (state and state.lower() not in item['location'].lower())
MatchesState(state, item) ==
    ~Truthy(state) \/ Contains(Lower(item.location), Lower(state))

\* The entry of the combined view for a listing.  The district and market
\* fields are constants and are left out, as in the government records; the
\* quantity is kept as the number its text is formatted from.
UserEntry(item) ==
    [crop |-> item.crop_name, price |-> item.price_per_kg, quantity |-> item.quantity_kg,
     state |-> item.location, source |-> "user", contact |-> item.contact,
     farmer_name |-> item.farmer_name, timestamp |-> item.timestamp]

RECURSIVE UserData(_, _)
\* for item in marketplace_db: ... user_data.append({...})
UserData(db, state) ==
    IF db = <<>> THEN <<>>
    ELSE IF MatchesState(state, Head(db))
    THEN <<UserEntry(Head(db))>> \o UserData(Tail(db), state)
    ELSE UserData(Tail(db), state)

\* The sort key '' of an entry without a timestamp: below every timestamp.
NoTimestamp == -1

\* x.get('timestamp', '')
SortKey(x) == IF x.source = "user" THEN x.timestamp ELSE NoTimestamp

\* x put into a list sorted by descending key, behind the entries whose key is
\* not smaller: list.sort is stable, with reverse=True too.
InsertByKey(sorted, x) ==
    SelectSeq(sorted, LAMBDA y : SortKey(y) >= SortKey(x)) \o <<x>>
        \o SelectSeq(sorted, LAMBDA y : SortKey(y) < SortKey(x))

RECURSIVE SortNewestFirst(_)
\* all_data.sort(key=lambda x: x.get('timestamp', ''), reverse=True)
SortNewestFirst(all_data) ==
    IF all_data = <<>> THEN <<>>
    ELSE InsertByKey(SortNewestFirst(SubSeq(all_data, 1, Len(all_data) - 1)),
                     all_data[Len(all_data)])

\* The cut that keeps one entry fewer.
Take_one_less(s, limit) ==
    IF limit - 1 >= 0 THEN SubSeq(s, 1, IF limit - 1 < Len(s) THEN limit - 1 ELSE Len(s))
    ELSE SubSeq(s, 1, Len(s) + limit - 1)

\* s[:limit]
Take(s, limit) ==
    IF limit >= 0 THEN SubSeq(s, 1, IF limit < Len(s) THEN limit ELSE Len(s))
    ELSE SubSeq(s, 1, Len(s) + limit)

StrSampleCrop == <<"S", "a", "m", "p", "l", "e", " ", "C", "r", "o", "p">>

StrSampleState == <<"S", "a", "m", "p", "l", "e", " ", "S", "t", "a", "t", "e">>

\* The record returned when an exception is caught.
SampleOnMarketError(state) ==
    [crop |-> StrSampleCrop, price |-> 100, state |-> Or(state, StrSampleState),
     source |-> "sample"]

\* What get_marketplace_data(state, limit) returns when get_cached_govt_data
\* raised exc, or returned govt_data for exc = "none", and marketplace_db is db.
get_marketplace_data(exc, govt_data, db, state, limit) ==
    IF exc # "none" THEN <<SampleOnMarketError(state)>>
    ELSE Take(SortNewestFirst(govt_data \o UserData(db, state)), limit)

\* Listings of the combined view: in Tamil Nadu and in Kerala.
MarketCropInputs ==
    { GoodCrop,
      CropData(JAbsent, JStr(StrWheat), JNum(12), JNum(40), JStr(StrKerala), JStr(StrPhone)) }

\* Upstream answers of the combined view: a record, and a record with an
\* infinite price.
MarketResponses ==
    { [err |-> FALSE, records |-> <<RawPotato>>],
      [err |-> FALSE, records |-> <<RawInfinite>>] }

\* The most listings, the largest limit and the most get_marketplace_data
\* calls of one run.
MaxMarketAdds == 2

MaxLimit == 2

MaxMarketCalls == 1

MarketInit ==
    /\ DATA_GOV_API_KEY = StrRealKey
    /\ CacheStart
    /\ StoreStart
    /\ NormIdle
    /\ FetchIdle
    /\ RestIdle

\* add_crop, called with a complete listing.
ListCrop ==
    /\ adds < MaxMarketAdds
    /\ \E crop_data \in MarketCropInputs :
           /\ marketplace_db' =
                  Appended(marketplace_db, add_crop(crop_data, marketplace_db, now))
           /\ lastAdd' = [crop_data |-> crop_data, len_before |-> Len(marketplace_db),
                          returned |-> add_crop(crop_data, marketplace_db, now)]
           /\ okAdds' = IF add_crop(crop_data, marketplace_db, now).success
                        THEN okAdds + 1 ELSE okAdds
    /\ adds' = adds + 1
    /\ UNCHANGED <<normVars, DATA_GOV_API_KEY, fetchVars, cacheVars, restVars>>

\* get_marketplace_data(state, limit), with its get_cached_govt_data call.
GetMarket ==
    /\ calls < MaxMarketCalls
    /\ \E state \in MarketStates, limit \in 0..MaxLimit, up \in MarketResponses :
           /\ get_cached_govt_data(state, up)
           /\ lastMarket' =
                  [state |-> state, limit |-> limit, listings |-> Len(marketplace_db),
                   govt |-> lastCall'.result,
                   exc |-> lastCall'.exc,
                   result |-> get_marketplace_data(lastCall'.exc, lastCall'.result,
                                                   marketplace_db, state, limit),
                   called |-> TRUE]
    /\ calls' = calls + 1
    /\ UNCHANGED <<normVars, DATA_GOV_API_KEY, fetchVars, now, storeVars, threadVars,
                   chatVars>>

MarketNext == ListCrop \/ StoreTick \/ GetMarket

SpecMarket == MarketInit /\ [][MarketNext]_vars

----------------------------------------------------------------------------
(* Claims about get_marketplace_data, under SpecMarket *)

\* The listings stored when the latest call was made whose location contains
\* the call's state argument, in any case; all of them for a call without one.
MatchingAtCall ==
    {k \in 1..lastMarket.listings :
        ~Truthy(lastMarket.state)
            \/ Contains(Lower(marketplace_db[k].location), Lower(lastMarket.state))}

\* The user listings of the latest result are all of a location that
\* contains the call's state argument, in any case.
OnlyMatchingListings ==
    \A i \in 1..Len(lastMarket.result) :
        lastMarket.result[i].source = "user" =>
            Contains(Lower(lastMarket.result[i].state), Lower(lastMarket.state))

\* C16 as stated: a call with a non-empty state S returns, of the user
\* listings, only those whose location contains S in any case, and every
\* record of the upstream result fetched for S is in the combined result.
C16_FilteredWithFullUpstream ==
    (lastMarket.called /\ Truthy(lastMarket.state)) =>
        /\ OnlyMatchingListings
        /\ \A i \in 1..Len(lastMarket.govt) :
               \E j \in 1..Len(lastMarket.result) :
                   lastMarket.result[j] = lastMarket.govt[i]

\* C16 amended: a call with a non-empty state S returns, of the user listings,
\* only those whose location contains S in any case; of the upstream result
\* fetched for S it returns the records that fit into `limit` behind the m
\* matching listings: the i-th upstream record is in the result when
\* i <= limit - m.
C16_FilteredWithUpstreamInLimit ==
    (lastMarket.called /\ Truthy(lastMarket.state)) =>
        /\ OnlyMatchingListings
        /\ \A i \in 1..Len(lastMarket.govt) :
               i <= lastMarket.limit - Cardinality(MatchingAtCall) =>
                   \E j \in 1..Len(lastMarket.result) :
                       lastMarket.result[j] = lastMarket.govt[i]

\* A call for "NADU" with limit 2, made when a listing in Tamil Nadu and one
\* in Kerala are stored, has returned the Tamil Nadu listing and the upstream
\* record.
C16_Witness ==
    /\ lastMarket.called
    /\ lastMarket.state = StrNaduUpper
    /\ lastMarket.limit = 2
    /\ lastMarket.listings = 2
    /\ Cardinality(MatchingAtCall) = 1
    /\ Len(lastMarket.govt) = 1
    /\ Len(lastMarket.result) = 2
    /\ lastMarket.result[1].source = "user"
    /\ lastMarket.result[1].state = StrTamilNadu
    /\ lastMarket.result[2] = lastMarket.govt[1]

\* C18: the result is ordered by timestamp descending and cut to the first
\* `limit` entries: it has at most `limit` entries, its user listings are
\* newest first, every user listing precedes every record that is not one,
\* and when at least `limit` listings match it holds user listings only.
C18_NewestFirstThenCut ==
    lastMarket.called =>
        /\ Len(lastMarket.result) <= lastMarket.limit
        /\ \A i, j \in 1..Len(lastMarket.result) :
               (i < j /\ lastMarket.result[j].source = "user") =>
                   /\ lastMarket.result[i].source = "user"
                   /\ lastMarket.result[i].timestamp >= lastMarket.result[j].timestamp
        /\ Cardinality(MatchingAtCall) >= lastMarket.limit =>
               \A i \in 1..Len(lastMarket.result) : lastMarket.result[i].source = "user"

----------------------------------------------------------------------------
(* handle_chatbot_message *)

REQUIRED_SLOTS == <<"location", "crop", "stage">>

StrReset == <<"r", "e", "s", "e", "t">>

StrPleaseRespondIn ==
    <<"P", "l", "e", "a", "s", "e", " ", "r", "e", "s", "p", "o", "n", "d", " ", "i", "n">>

\* s.startswith(prefix)
StartsWith(s, prefix) ==
    Len(s) >= Len(prefix) /\ SubSeq(s, 1, Len(prefix)) = prefix

\* REQUIRED_SLOTS.index(slot)
SlotIndex(slot) == CHOOSE i \in 1..Len(REQUIRED_SLOTS) : REQUIRED_SLOTS[i] = slot

\* The slot taken after an answer, with the crop question left out.
NextSlot_skip_crop(slot) == REQUIRED_SLOTS[Len(REQUIRED_SLOTS)]

\* REQUIRED_SLOTS[slot_index + 1]
NextSlot(slot) == REQUIRED_SLOTS[SlotIndex(slot) + 1]

\* The session dict made for a new or a reset session.
NewSession(language) == [NoSession EXCEPT !.exists = TRUE, !.language = language]

\* A reply: what it says, the slot it asks for, and the language it is
\* translated to.  The texts of the language model are not modelled, only
\* whether its call succeeded.
Reply(kind, slot, language) == [kind |-> kind, slot |-> slot, language |-> language]

\* What a call leaves: chat_sessions and the reply.
Left(sessions, reply) == [sessions |-> sessions, reply |-> reply]

\* Step 4 and the follow-up branch: the first message with every slot filled
\* activates the conversation and gives the advice; later ones are answered by
\* the language model, whose failure is caught.
Converse(sessions, id, session, language, llm_ok) ==
    IF ~session.conversation_active
    THEN Left([sessions EXCEPT ![id] =
                   [session EXCEPT !.data.language = session.language,
                                   !.conversation_active = TRUE]],
              Reply(IF llm_ok THEN "advice" ELSE "advice_error", "none", session.language))
    ELSE Left([sessions EXCEPT ![id] = session],
              IF llm_ok THEN Reply("follow_up", "none", session.language)
              ELSE Reply("trouble", "none", StrEn))

\* Step 3: move to the next slot, if there is one.
Advance(sessions, id, session, language, llm_ok) ==
    IF SlotIndex(session.current_slot) < Len(REQUIRED_SLOTS)
    THEN Left([sessions EXCEPT ![id] =
                   [session EXCEPT !.current_slot = NextSlot(session.current_slot)]],
              Reply("question", NextSlot(session.current_slot), language))
    ELSE Converse(sessions, id, session, language, llm_ok)

\* Step 2: save the input unless it is a system message, which is answered
\* with the current question.
SaveInput(sessions, id, session, message, language, llm_ok) ==
    IF StartsWith(message, StrPleaseRespondIn)
    THEN Left([sessions EXCEPT ![id] = session],
              Reply("question", session.current_slot, language))
    ELSE Advance(sessions, id,
                 [session EXCEPT !.data[session.current_slot] = message],
                 language, llm_ok)

\* A message for a session that exists: the language is updated if it has
\* changed, and a language change message is then answered at once.
Existing(sessions, id, message, language, llm_ok) ==
    IF language # sessions[id].language /\ StartsWith(message, StrPleaseRespondIn)
    THEN Left([sessions EXCEPT ![id].language = language],
              Reply("language_changed", sessions[id].current_slot, language))
    ELSE SaveInput(sessions, id, [sessions[id] EXCEPT !.language = language],
                   message, language, llm_ok)

\* The function after message = message.strip().lower().
Handle(sessions, id, message, language, llm_ok) ==
    IF message = <<>>
    THEN Left(sessions, Reply("invalid", "none", StrEn))
    ELSE IF message = StrReset \/ ~sessions[id].exists
    THEN Left([sessions EXCEPT ![id] = NewSession(language)],
              Reply("question", "location", language))
    ELSE Existing(sessions, id, message, language, llm_ok)

\* What handle_chatbot_message(session_id, message, language) leaves when
\* chat_sessions is sessions and the calls of the language model succeed
\* (llm_ok) or fail.
handle_chatbot_message(sessions, session_id, message, language, llm_ok) ==
    Handle(sessions, session_id, Lower(Strip(message)), language, llm_ok)

StrPune == <<"P", "u", "n", "e">>

StrWhy == <<"W", "h", "y", "?">>

\* Messages: answers and questions, a padded reset in upper case, a blank
\* message, a language change message.
Messages ==
    { StrPune, StrWhy, <<" ">> \o Upper(StrReset) \o <<" ">>, <<" ", " ">>,
      StrPleaseRespondIn \o <<" ">> \o StrHi }

Languages == { StrEn, StrHi }

\* The most messages of one run.
MaxChats == 5

ChatInit ==
    /\ DATA_GOV_API_KEY = None
    /\ CacheStart
    /\ StoreStart
    /\ NormIdle
    /\ FetchIdle
    /\ RestIdle

Chat ==
    /\ lastChat.n < MaxChats
    /\ \E id \in SessionIds, message \in Messages, language \in Languages,
          llm_ok \in BOOLEAN :
           /\ chat_sessions' =
                  handle_chatbot_message(chat_sessions, id, message, language, llm_ok).sessions
           /\ lastChat' =
                  [session_id |-> id, message |-> message, language |-> language,
                   before |-> chat_sessions[id],
                   reply |-> handle_chatbot_message(chat_sessions, id, message, language,
                                                    llm_ok).reply,
                   n |-> lastChat.n + 1]
    /\ UNCHANGED <<normVars, DATA_GOV_API_KEY, fetchVars, cacheVars, storeVars, threadVars,
                   marketVars>>

ChatNext == Chat

SpecChat == ChatInit /\ [][ChatNext]_vars

----------------------------------------------------------------------------
(* Claims about handle_chatbot_message, under SpecChat *)

\* The session of the latest call, as the call left it.
SessionNow == chat_sessions[lastChat.session_id]

\* C17: a message that begins with "Please respond in", sent to a session
\* that exists, is not treated as a slot answer: the session data stay as
\* they were, the current slot does not advance, and the reply asks the
\* question of the current slot again.
C17_LanguageChangeNotAnAnswer ==
    (lastChat.n >= 1 /\ lastChat.before.exists
        /\ StartsWith(lastChat.message, StrPleaseRespondIn)) =>
        /\ SessionNow.data = lastChat.before.data
        /\ SessionNow.current_slot = lastChat.before.current_slot
        /\ lastChat.reply.kind \in {"question", "language_changed"}
        /\ lastChat.reply.slot = lastChat.before.current_slot

\* C19: a message other than 'reset' sent to a session whose conversation is
\* active leaves the stored location, crop and stage as they were.
C19_FollowUpKeepsSlots ==
    (lastChat.n >= 1 /\ lastChat.before.exists /\ lastChat.before.conversation_active
        /\ Lower(Strip(lastChat.message)) # StrReset) =>
        /\ SessionNow.data.location = lastChat.before.data.location
        /\ SessionNow.data.crop = lastChat.before.data.crop
        /\ SessionNow.data.stage = lastChat.before.data.stage

\* C20: in every session the conversation is active only if the current slot
\* is stage and location, crop and stage are stored; and a step leaves the
\* current slot of a session as it is, or moves it one slot forward when the
\* step is a call for that session whose message was stored as the answer of
\* the slot left, or takes it back to location when the step is a call for
\* that session with the message 'reset'.
C20_SlotsForwardAndActive ==
    /\ [](\A id \in SessionIds :
              chat_sessions[id].conversation_active =>
                  /\ chat_sessions[id].exists
                  /\ chat_sessions[id].current_slot = "stage"
                  /\ chat_sessions[id].data.location # Unset
                  /\ chat_sessions[id].data.crop # Unset
                  /\ chat_sessions[id].data.stage # Unset)
    /\ [][\A id \in SessionIds :
              \/ chat_sessions'[id].current_slot = chat_sessions[id].current_slot
              \/ /\ lastChat'.session_id = id
                 /\ lastChat'.n = lastChat.n + 1
                 /\ chat_sessions[id].exists
                 /\ SlotIndex(chat_sessions'[id].current_slot)
                        = SlotIndex(chat_sessions[id].current_slot) + 1
                 /\ chat_sessions'[id].data[chat_sessions[id].current_slot]
                        = Lower(Strip(lastChat'.message))
              \/ /\ lastChat'.session_id = id
                 /\ lastChat'.n = lastChat.n + 1
                 /\ Lower(Strip(lastChat'.message)) = StrReset
                 /\ chat_sessions'[id].current_slot = "location"
                 /\ ~chat_sessions'[id].conversation_active]_vars

\* A session has been led through its three questions to an active
\* conversation and is reset by the fifth message.
C20_Witness ==
    /\ lastChat.n = 5
    /\ lastChat.session_id = "default"
    /\ lastChat.before.conversation_active
    /\ lastChat.before.current_slot = "stage"
    /\ Lower(Strip(lastChat.message)) = StrReset
    /\ SessionNow.current_slot = "location"
    /\ ~SessionNow.conversation_active
    /\ SessionNow.data.location = Unset

====
